---- MODULE Spec2Model ----
(***************************************************************************)
(* Model of the SpeechSuper glue layer: the Flask route handlers of        *)
(* src/app.py and src/pronunciation_mvp.py, the SpeechSuperAPI client      *)
(* (signing, ffmpeg normalisation, dispatch) and the upload directory the  *)
(* handlers share.  Each inbound request is a process whose steps are the  *)
(* handler's file-system, subprocess and network operations.               *)
(***************************************************************************)
EXTENDS Integers, Sequences, FiniteSets, TLC

(***************************************************************************)
(* Bounds of the model.                                                    *)
(***************************************************************************)
\* inbound requests handled by the concurrent specification (two workers)
MaxArrivals == 2
\* inbound requests handled one after the other by a single worker
MaxSeqArrivals == 3
\* seconds the wall clock may advance during a run
MaxTicks == 1
\* wall clock (seconds since the epoch) when the process starts
EpochStart == 9
\* size in bytes of a small non-empty upload
SmallLen == 3

(***************************************************************************)
(* Program constants.                                                      *)
(***************************************************************************)
MAX_AUDIO_BYTES == 16 * 1024 * 1024
ERROR_EXCERPT_LEN == 300
JSON_EXCERPT_LEN == 50
PLACEHOLDER_APP_KEY == "your_app_key_here"
PLACEHOLDER_SECRET_KEY == "your_secret_key_here"
HTTP_OK == 200
HTTP_BAD_REQUEST == 400
HTTP_SERVER_ERROR == 500

ReqIds == {1, 2}

(***************************************************************************)
(* Strings.  str(int(time.time())) renders the clock in decimal.           *)
(***************************************************************************)
Digit == <<"0", "1", "2", "3", "4", "5", "6", "7", "8", "9">>

RECURSIVE Str(_)
Str(n) == IF n < 10 THEN Digit[n + 1] ELSE Str(n \div 10) \o Digit[(n % 10) + 1]

Min(a, b) == IF a <= b THEN a ELSE b

(***************************************************************************)
(* File names and paths.  A path in UPLOAD_FOLDER is its base name, split  *)
(* as os.path.splitext splits it; an uploaded name may carry directory     *)
(* components, which secure_filename drops.                                *)
(***************************************************************************)
NoName == [dirs |-> "", stem |-> "", ext |-> ""]

RawNames ==
    { [dirs |-> "",    stem |-> "a", ext |-> ".mp3"],
      [dirs |-> "../", stem |-> "a", ext |-> ".mp3"],
      [dirs |-> "",    stem |-> "b", ext |-> ".mp3"],
      [dirs |-> "",    stem |-> "b_standardized", ext |-> ".wav"] }

secure_filename(name) == [stem |-> name.stem, ext |-> name.ext]

\* the output path built by replacing the extension only
StandardizedPathReplacingExtension(input_path) ==
    [stem |-> input_path.stem, ext |-> ".wav"]

\* os.path.join(output_dir, f"{base_name}_standardized.wav")
StandardizedPath(input_path) ==
    [stem |-> input_path.stem \o "_standardized", ext |-> ".wav"]

UploadPaths == { secure_filename(n) : n \in RawNames }
Paths == UploadPaths \cup { StandardizedPath(p) : p \in UploadPaths }

(***************************************************************************)
(* File contents: whose upload the bytes come from, in which form, and     *)
(* how many bytes.                                                         *)
(***************************************************************************)
NoFile == [origin |-> 0, form |-> "none", len |-> 0]
Upload(id, n) == [origin |-> id, form |-> "raw", len |-> n]
Exists(files, p) == files[p] # NoFile

(***************************************************************************)
(* Upstream responses and the error messages built from them.              *)
(***************************************************************************)
EmptyBody == [kind |-> "empty", len |-> 0]
BodyKinds == {"json", "html", "xml", "text", "blank"}
ShortLen == 8
LongLen == 301
Bodies ==
    {EmptyBody, [kind |-> "text", len |-> LongLen]}
        \cup { [kind |-> k, len |-> ShortLen] : k \in BodyKinds }
Statuses == {HTTP_OK, HTTP_SERVER_ERROR}
ContentTypes == {"application/json", "text/html"}
Responses == [status : Statuses, body : Bodies, ctype : ContentTypes]

\* response.text[:n]
Excerpt(body, n) == [kind |-> body.kind, len |-> Min(body.len, n)]

\* an error message: its fixed wording, the status codes and the body
\* excerpts that are formatted into it
Msg(text, codes, excerpts) == [text |-> text, codes |-> codes, excerpts |-> excerpts]
NoExc == Msg("", {}, {})
Plain(text) == Msg(text, {}, {})

(***************************************************************************)
(* Signing (Variant A).                                                    *)
(***************************************************************************)
\* hmac.new(key, msg, hashlib.sha1).hexdigest()
HmacSha1Hex(key, msg) == [alg |-> "hmac-sha1-hex", key |-> key, msg |-> msg]
\* base64.b64encode(x.encode('utf-8')).decode('utf-8')
Base64(x) == [b64 |-> x]

\* the signature over appKey + timestamp alone, the connect token left out
\* of the signed string
GenerateSignatureOverTokenOnce(self, timestamp, connect_str) ==
    LET sig_str == self.app_key \o timestamp
        sig_sha1 == HmacSha1Hex(self.secret_key, sig_str)
    IN  Base64(sig_sha1)

\* SpeechSuperAPI._generate_signature
_generate_signature(self, timestamp, connect_str) ==
    LET sig_str == self.app_key \o timestamp \o connect_str
        sig_sha1 == HmacSha1Hex(self.secret_key, sig_str)
    IN  Base64(sig_sha1)

\* timestamp, connect token, signature and URL of one outbound call
SignedUrl(self, now, core_type, text, encoded) ==
    LET timestamp == Str(now)
        connect_str == self.app_key \o timestamp
        signature == _generate_signature(self, timestamp, connect_str)
    IN  [base |-> self.base_url, sig |-> signature, connect |-> connect_str,
         coreType |-> core_type, text |-> text, quoted |-> encoded,
         timestamp |-> timestamp]

NoUrl == [base |-> "", sig |-> Base64(HmacSha1Hex("", "")), connect |-> "",
          coreType |-> "", text |-> "", quoted |-> FALSE, timestamp |-> ""]

\* pronunciation_mvp.py, SpeechSuperAPI._generate_signature
mvp_generate_signature(self, timestamp, connect_str) ==
    LET sig_str == self.app_key \o timestamp \o connect_str
        sig_sha1 == HmacSha1Hex(self.secret_key, sig_str)
    IN  Base64(sig_sha1)

\* pronunciation_mvp.py: timestamp, connect token, signature and URL of one
\* outbound call (the reference text goes into the URL as it is)
MvpSignedUrl(self, now, core_type, text) ==
    LET timestamp == Str(now)
        connect_str == self.app_key \o timestamp
        signature == mvp_generate_signature(self, timestamp, connect_str)
    IN  [base |-> self.base_url, sig |-> signature, connect |-> connect_str,
         coreType |-> core_type, text |-> text, quoted |-> FALSE,
         timestamp |-> timestamp]

\* the inline signing with the secret key appended to the signed string
\* instead of keying the digest
DebugAuthSigningWithSecretInString(app_key, secret_key, now) ==
    LET timestamp == Str(now)
        connect_str == app_key \o timestamp
        sig_str == app_key \o timestamp \o connect_str \o secret_key
        sig_sha1 == HmacSha1Hex("", sig_str)
        signature == Base64(sig_sha1)
    IN  [timestamp |-> timestamp, connect_str |-> connect_str,
         signature |-> signature]

\* debug_auth, its inline signing
DebugAuthSigning(app_key, secret_key, now) ==
    LET timestamp == Str(now)
        connect_str == app_key \o timestamp
        sig_str == app_key \o timestamp \o connect_str
        sig_sha1 == HmacSha1Hex(secret_key, sig_str)
        signature == Base64(sig_sha1)
    IN  [timestamp |-> timestamp, connect_str |-> connect_str,
         signature |-> signature]

\* test_speechsuper_formats, its inline signing
TestFormatsSigning(app_key, secret_key, now) ==
    LET timestamp == Str(now)
        connect_str == app_key \o timestamp
        sig_str == app_key \o timestamp \o connect_str
        sig_sha1 == HmacSha1Hex(secret_key, sig_str)
        signature == Base64(sig_sha1)
    IN  [timestamp |-> timestamp, connect_str |-> connect_str,
         signature |-> signature]

(***************************************************************************)
(* Signing (Variant B), as the specification words it: no code under src/  *)
(* computes it.                                                            *)
(***************************************************************************)
\* hashlib.sha1(msg).hexdigest()
Sha1Hex(msg) == [alg |-> "sha1-hex", msg |-> msg]
VariantBConnect(app_key, timestamp, secret_key) ==
    Sha1Hex(app_key \o timestamp \o secret_key)

(***************************************************************************)
(* Classification of the upstream response.                                *)
(***************************************************************************)
Ok(value) == [ok |-> TRUE, value |-> value, error |-> NoExc]
Err(msg) == [ok |-> FALSE, value |-> EmptyBody, error |-> msg]

\* response.text.strip().startswith('<!DOCTYPE') or ...startswith('<html')
HtmlLooking(body) == body.kind = "html"
\* 'html' in content_type
HtmlType(ctype) == ctype = "text/html"
\* response.json() succeeds
ParsesAsJson(body) == body.kind = "json"

\* _send_audio_request with the status test moved before the HTML-looking test
ClassifyResponseStatusFirst(resp) ==
    IF resp.status # HTTP_OK
    THEN Err(Msg("API returned status", {resp.status},
                 IF resp.body.len > 0
                 THEN {Excerpt(resp.body, ERROR_EXCERPT_LEN)} ELSE {}))
    ELSE IF resp.body.len > 0 /\ HtmlLooking(resp.body)
    THEN Err(Plain("API returned HTML error page instead of JSON"))
    ELSE IF resp.body.len = 0
    THEN Err(Plain("API returned empty response (0 bytes)"))
    ELSE IF HtmlType(resp.ctype)
    THEN Err(Plain("API returned HTML content type"))
    ELSE IF ParsesAsJson(resp.body)
    THEN Ok(resp.body)
    ELSE IF resp.body.kind = "blank"
    THEN Err(Plain("API returned completely empty response"))
    ELSE IF resp.body.kind = "xml"
    THEN Err(Plain("API returned HTML instead of JSON"))
    ELSE Err(Msg("API returned non-JSON response", {},
                 {Excerpt(resp.body, JSON_EXCERPT_LEN)}))

\* _send_audio_request without its test of the content-type header
ClassifyResponseIgnoringType(resp) ==
    IF resp.body.len > 0 /\ HtmlLooking(resp.body)
    THEN Err(Plain("API returned HTML error page instead of JSON"))
    ELSE IF resp.status # HTTP_OK
    THEN Err(Msg("API returned status", {resp.status},
                 IF resp.body.len > 0
                 THEN {Excerpt(resp.body, ERROR_EXCERPT_LEN)} ELSE {}))
    ELSE IF resp.body.len = 0
    THEN Err(Plain("API returned empty response (0 bytes)"))
    ELSE IF ParsesAsJson(resp.body)
    THEN Ok(resp.body)
    ELSE Err(Msg("API returned non-JSON response", {},
                 {Excerpt(resp.body, JSON_EXCERPT_LEN)}))

\* app.py, _send_audio_request: what the try block makes of a response
ClassifyResponse(resp) ==
    IF resp.body.len > 0 /\ HtmlLooking(resp.body)
    THEN Err(Plain("API returned HTML error page instead of JSON"))
    ELSE IF resp.status # HTTP_OK
    THEN Err(Msg("API returned status", {resp.status},
                 IF resp.body.len > 0
                 THEN {Excerpt(resp.body, ERROR_EXCERPT_LEN)} ELSE {}))
    ELSE IF resp.body.len = 0
    THEN Err(Plain("API returned empty response (0 bytes)"))
    ELSE IF HtmlType(resp.ctype)
    THEN Err(Plain("API returned HTML content type"))
    ELSE IF ParsesAsJson(resp.body)
    THEN Ok(resp.body)
    ELSE IF resp.body.kind = "blank"
    THEN Err(Plain("API returned completely empty response"))
    ELSE IF resp.body.kind = "xml"
    THEN Err(Plain("API returned HTML instead of JSON"))
    ELSE Err(Msg("API returned non-JSON response", {},
                 {Excerpt(resp.body, JSON_EXCERPT_LEN)}))

\* pronunciation_mvp.py: raise_for_status() then response.json().  The JSON
\* error is a RequestException in recent releases of requests (wrapped) and
\* a plain ValueError in older ones (not wrapped).
MvpClassifyResponse(resp, wrapped) ==
    IF resp.status >= HTTP_BAD_REQUEST
    THEN Err(Msg("API request failed: Server Error for url", {resp.status}, {}))
    ELSE IF ParsesAsJson(resp.body)
    THEN Ok(resp.body)
    ELSE IF wrapped
    THEN Err(Plain("API request failed: Expecting value"))
    ELSE Err(Plain("Expecting value"))

TransportErrors == {"Timeout", "ConnectionError", "RequestException"}

\* outcomes of requests.post: an exception of requests, or a response; for a
\* response, whether the installed requests wraps a JSON decoding error
NoUpstream == [status |-> 0, body |-> EmptyBody, ctype |-> ""]
PostOutcome(transport, resp, wrapped) ==
    [transport |-> transport, resp |-> resp, wrapped |-> wrapped]

\* app.py, the except clauses of _send_audio_request
TransportMessage(kind) ==
    CASE kind = "Timeout" -> Plain("API request timed out (90 seconds)")
      [] kind = "ConnectionError" -> Plain("Unable to connect to SpeechSuper API")
      [] OTHER -> Plain("Network error during API request")

\* pronunciation_mvp.py, except RequestException
MvpTransportMessage(kind) == Plain("API request failed: " \o kind)

(***************************************************************************)
(* JSON bodies returned by the route handlers.                             *)
(***************************************************************************)
ErrorJson(msg) == [error |-> msg]
SuccessJson(result, text) == [success |-> TRUE, assessment |-> result, text |-> text]
\* check_audio: the result dictionary, as far as its 'standardized' entry
CheckAudioJson(standardized) == [success |-> TRUE, standardized |-> standardized]
HttpResponse(code, json) == [code |-> code, json |-> json]
NoResponse == HttpResponse(0, [none |-> TRUE])

(***************************************************************************)
(* Routes.                                                                 *)
(***************************************************************************)
\* app.py routes served by _make_assessment_request
ScriptedRoutes == {"assess_sentence", "assess_paragraph", "assess_pte"}
\* app.py routes served by the undefined _make_speechsuper_request
UnscriptedRoutes == {"assess_ielts", "assess_transcribe"}
\* pronunciation_mvp.py routes
MvpRoutes == {"assess_pronunciation", "assess_spontaneous"}
\* app.py: the audio-check operation check_audio, taken as invoked with the
\* request of its front-end caller (POST /api/check-audio)
CheckRoutes == {"check_audio"}
Routes == ScriptedRoutes \cup UnscriptedRoutes \cup MvpRoutes \cup CheckRoutes
\* routes that require reference_text
NeedsReference == ScriptedRoutes \cup {"assess_pronunciation"}

CoreType(route) ==
    CASE route = "assess_sentence" -> "sent.eval.promax"
      [] route = "assess_paragraph" -> "para.eval"
      [] route = "assess_pte" -> "pte.eval"
      [] route = "assess_ielts" -> "speak.eval.pro"
      [] route = "assess_transcribe" -> "asr.eval"
      [] route = "assess_pronunciation" -> "sent.eval.promax"
      [] OTHER -> "speak.eval.pro"

DefaultPrompt(route) ==
    IF route = "assess_transcribe" THEN "Tell me about yourself"
    ELSE "What's your favorite food?"

(***************************************************************************)
(* Inputs of an inbound request.  The single-request specification draws  *)
(* them from the full sets, the others from representative subsets.        *)
(***************************************************************************)
NoAudioPart == [present |-> FALSE, name |-> NoName, len |-> 0]
AudioPart(name, n) == [present |-> TRUE, name |-> name, len |-> n]
UploadLens == {0, SmallLen}
Texts == {"", "hello"}
OutLens == {SmallLen + 1, MAX_AUDIO_BYTES, MAX_AUDIO_BYTES + 1}

AudioParts ==
    {NoAudioPart, AudioPart(NoName, 0)}
        \cup { AudioPart(n, l) : n \in RawNames, l \in UploadLens }

PostOutcomes ==
    { PostOutcome(k, NoUpstream, TRUE) : k \in TransportErrors }
        \cup { PostOutcome("", resp, w) : resp \in Responses, w \in BOOLEAN }

\* the full set when the run handles a single request, the subset otherwise
Choose(requests, full, subset) == IF requests = 1 THEN full ELSE subset

ConcRoutes == {"assess_sentence", "assess_ielts", "assess_pronunciation", "check_audio"}
ConcAudioParts ==
    { AudioPart(n, SmallLen) : n \in { m \in RawNames : m.dirs = "" /\ m.ext = ".mp3" } }
ConcTexts == {"hello"}
ConcResponses ==
    { [status |-> HTTP_OK, body |-> [kind |-> "json", len |-> ShortLen],
       ctype |-> "application/json"],
      [status |-> HTTP_SERVER_ERROR, body |-> [kind |-> "text", len |-> ShortLen],
       ctype |-> "text/html"] }
ConcPostOutcomes == { PostOutcome("", resp, TRUE) : resp \in ConcResponses }
ConcProbeOutcomes == {"ok"}

(***************************************************************************)
(* State.                                                                  *)
(***************************************************************************)
VARIABLES
    client,     \* speechsuper_client: app_key, secret_key, base_url
    workers,    \* the request slots the server runs
    remaining,  \* inbound requests still to arrive
    nextId,     \* identity of the next inbound request
    clock,      \* int(time.time())
    fs,         \* UPLOAD_FOLDER: path -> contents
    req,        \* per slot: the request being handled and its locals
    posts       \* requests.post calls issued so far

vars == <<client, workers, remaining, nextId, clock, fs, req, posts>>

NoPath == [stem |-> "", ext |-> ""]
IdleReq ==
    [pc |-> "idle", id |-> 0, route |-> "", part |-> NoAudioPart, text |-> "",
     temp_path |-> NoPath, url |-> NoUrl, probe |-> "",
     standardized_path |-> NoPath, ffmpeg |-> "", made |-> "none",
     audio_data |-> NoFile, nposts |-> 0, upstream |-> NoUpstream,
     transport |-> "", result |-> EmptyBody, returned |-> FALSE,
     exc |-> NoExc, response |-> NoResponse, trace |-> <<>>]

Keys == {PLACEHOLDER_APP_KEY, "k1"}
Secrets == {PLACEHOLDER_SECRET_KEY, "s3cr3t"}

\* the state after the module is imported: Config read from the environment
\* (placeholders when unset), the client constructed, nothing uploaded yet
InitCommon ==
    /\ nextId = 1
    /\ clock = EpochStart
    /\ fs = [p \in Paths |-> NoFile]
    /\ req = [r \in ReqIds |-> IdleReq]
    /\ posts = {}

Init ==
    /\ InitCommon
    /\ client \in [app_key : Keys, secret_key : Secrets,
                   base_url : {"https://api.speechsuper.com/"}]
    /\ workers = {1}
    /\ remaining = 1

InitConc ==
    /\ InitCommon
    /\ client = [app_key |-> "k1", secret_key |-> "s3cr3t",
                 base_url |-> "https://api.speechsuper.com/"]
    /\ workers = ReqIds
    /\ remaining = MaxArrivals

InitSeq ==
    /\ InitCommon
    /\ client = [app_key |-> "k1", secret_key |-> "s3cr3t",
                 base_url |-> "https://api.speechsuper.com/"]
    /\ workers = {1}
    /\ remaining = MaxSeqArrivals

Log(q, event) == Append(q.trace, event)

\* the route's "except Exception" / normal return after its finally block
Finish(q, exc) ==
    [q EXCEPT !.pc = "done", !.exc = exc,
              !.response =
                  IF exc # NoExc
                  THEN HttpResponse(HTTP_SERVER_ERROR, ErrorJson(exc))
                  ELSE IF q.route \in CheckRoutes
                  THEN HttpResponse(HTTP_OK,
                           CheckAudioJson(q.standardized_path # q.temp_path))
                  ELSE HttpResponse(HTTP_OK, SuccessJson(q.result, q.text))]

Reject(q, text) ==
    [q EXCEPT !.pc = "done",
              !.response = HttpResponse(HTTP_BAD_REQUEST, ErrorJson(Plain(text)))]

(***************************************************************************)
(* time.time() advances.                                                   *)
(***************************************************************************)
Tick ==
    /\ clock < EpochStart + MaxTicks
    /\ clock' = clock + 1
    /\ UNCHANGED <<client, workers, remaining, nextId, fs, req, posts>>

\* input validation with the reference-text check moved before the audio checks
ReceiveCheckingTextFirst(r) ==
    /\ r \in workers
    /\ req[r].pc \in {"idle", "done"}
    \* the server hands a request to its first free worker
    /\ \A w \in workers : w < r => req[w].pc \notin {"idle", "done"}
    /\ remaining > 0
    /\ \E route \in Choose(nextId + remaining - 1, Routes, ConcRoutes),
          part \in Choose(nextId + remaining - 1, AudioParts, ConcAudioParts),
          t \in Choose(nextId + remaining - 1, Texts, ConcTexts) :
        LET text == IF route \in CheckRoutes THEN ""
                    ELSE IF route \notin NeedsReference /\ t = ""
                    THEN DefaultPrompt(route) ELSE t
            q == [IdleReq EXCEPT !.id = nextId, !.route = route,
                                 !.part = part, !.text = text,
                                 !.trace = <<"receive">>]
        IN  req' = [req EXCEPT ![r] =
                IF route \in NeedsReference /\ text = ""
                THEN Reject(q, "Reference text is required")
                ELSE IF ~part.present THEN Reject(q, "No audio file provided")
                ELSE IF part.name = NoName THEN Reject(q, "No audio file selected")
                ELSE [q EXCEPT !.pc = "save"]]
    /\ remaining' = remaining - 1
    /\ nextId' = nextId + 1
    /\ UNCHANGED <<client, workers, clock, fs, posts>>

(***************************************************************************)
(* A route handler starts: input validation.                               *)
(***************************************************************************)
Receive(r) ==
    /\ r \in workers
    /\ req[r].pc \in {"idle", "done"}
    \* the server hands a request to its first free worker
    /\ \A w \in workers : w < r => req[w].pc \notin {"idle", "done"}
    /\ remaining > 0
    /\ \E route \in Choose(nextId + remaining - 1, Routes, ConcRoutes),
          part \in Choose(nextId + remaining - 1, AudioParts, ConcAudioParts),
          t \in Choose(nextId + remaining - 1, Texts, ConcTexts) :
        LET text == IF route \in CheckRoutes THEN ""
                    ELSE IF route \notin NeedsReference /\ t = ""
                    THEN DefaultPrompt(route) ELSE t
            q == [IdleReq EXCEPT !.id = nextId, !.route = route,
                                 !.part = part, !.text = text,
                                 !.trace = <<"receive">>]
        IN  req' = [req EXCEPT ![r] =
                IF ~part.present THEN Reject(q, "No audio file provided")
                ELSE IF part.name = NoName THEN Reject(q, "No audio file selected")
                ELSE IF route \in NeedsReference /\ text = ""
                THEN Reject(q, "Reference text is required")
                ELSE [q EXCEPT !.pc = "save"]]
    /\ remaining' = remaining - 1
    /\ nextId' = nextId + 1
    /\ UNCHANGED <<client, workers, clock, fs, posts>>

\* filename = secure_filename(...); temp_path = join(UPLOAD_FOLDER, filename);
\* audio_file.save(temp_path)
Save(r) ==
    /\ req[r].pc = "save"
    /\ LET q == req[r]
           temp_path == secure_filename(q.part.name)
       IN  /\ fs' = [fs EXCEPT ![temp_path] = Upload(q.id, q.part.len)]
           /\ req' = [req EXCEPT ![r] =
                  [q EXCEPT !.pc = "call", !.temp_path = temp_path,
                            !.trace = Log(q, "save")]]
    /\ UNCHANGED <<client, workers, remaining, nextId, clock, posts>>

(***************************************************************************)
(* The client call made by the route inside its try/finally.               *)
(***************************************************************************)
\* the scripted call with a per-request value mixed into the signed string
MakeAssessmentRequestWithNonce(r) ==
    /\ req[r].pc = "call"
    /\ req[r].route \in ScriptedRoutes
    /\ LET q == req[r]
           signed == SignedUrl(client, clock, CoreType(q.route), q.text, TRUE)
       IN  req' = [req EXCEPT ![r] =
               [q EXCEPT !.pc = "probe",
                         !.url = [signed EXCEPT !.sig =
                                     _generate_signature(client, signed.timestamp,
                                                         signed.connect \o Str(q.id))],
                         !.trace = Log(q, "sign")]]
    /\ UNCHANGED <<client, workers, remaining, nextId, clock, fs, posts>>

\* app.py: assess_scripted_sentence / _paragraph / assess_pte_speech ->
\* _make_assessment_request: timestamp, connect token, signature, URL; then
\* _send_audio_request is entered
_make_assessment_request(r) ==
    /\ req[r].pc = "call"
    /\ req[r].route \in ScriptedRoutes
    /\ LET q == req[r]
       IN  req' = [req EXCEPT ![r] =
               [q EXCEPT !.pc = "probe",
                         !.url = SignedUrl(client, clock, CoreType(q.route),
                                           q.text, TRUE),
                         !.trace = Log(q, "sign")]]
    /\ UNCHANGED <<client, workers, remaining, nextId, clock, fs, posts>>

\* app.py: assess_ielts_speech / assess_transcribe_and_score call
\* self._make_speechsuper_request, which the class does not define
_make_speechsuper_request(r) ==
    /\ req[r].pc = "call"
    /\ req[r].route \in UnscriptedRoutes
    /\ LET q == req[r]
       IN  req' = [req EXCEPT ![r] =
               [q EXCEPT !.pc = "route_exists",
                         !.exc = Plain("'SpeechSuperAPI' object has no attribute '_make_speechsuper_request'"),
                         !.trace = Log(q, "raise")]]
    /\ UNCHANGED <<client, workers, remaining, nextId, clock, fs, posts>>

\* the MVP call signing with the timestamp of the first call of the process,
\* kept and reused by later requests
MvpSignWithCachedTimestamp(r) ==
    /\ req[r].pc = "call"
    /\ req[r].route \in MvpRoutes
    /\ LET q == req[r]
           cached == IF posts = {} THEN clock ELSE EpochStart
       IN  req' = [req EXCEPT ![r] =
               [q EXCEPT !.pc = "read",
                         !.url = MvpSignedUrl(client, cached, CoreType(q.route),
                                              q.text),
                         !.standardized_path = q.temp_path,
                         !.trace = Log(q, "sign")]]
    /\ UNCHANGED <<client, workers, remaining, nextId, clock, fs, posts>>

\* pronunciation_mvp.py: assess_pronunciation / assess_spontaneous_speech,
\* up to the URL (the reference text is not URL-encoded here)
MvpSign(r) ==
    /\ req[r].pc = "call"
    /\ req[r].route \in MvpRoutes
    /\ LET q == req[r]
       IN  req' = [req EXCEPT ![r] =
               [q EXCEPT !.pc = "read",
                         !.url = MvpSignedUrl(client, clock, CoreType(q.route),
                                              q.text),
                         !.standardized_path = q.temp_path,
                         !.trace = Log(q, "sign")]]
    /\ UNCHANGED <<client, workers, remaining, nextId, clock, fs, posts>>

\* debug_auth: the two placeholder tests, then the inline signing and the
\* test URL; the handler reads no upload and makes no outbound call
debug_auth(r) ==
    /\ r \in workers
    /\ req[r].pc \in {"idle", "done"}
    /\ \A w \in workers : w < r => req[w].pc \notin {"idle", "done"}
    /\ remaining > 0
    /\ LET q == [IdleReq EXCEPT !.id = nextId, !.route = "debug_auth",
                                !.trace = <<"receive">>]
           s == DebugAuthSigning(client.app_key, client.secret_key, clock)
           test_url == [base |-> "https://api.speechsuper.com/",
                        sig |-> s.signature, connect |-> s.connect_str,
                        coreType |-> "sent.eval.promax", text |-> "test",
                        quoted |-> FALSE, timestamp |-> s.timestamp]
       IN  req' = [req EXCEPT ![r] =
               IF client.app_key = PLACEHOLDER_APP_KEY
               THEN Reject(q, "SPEECHSUPER_APP_KEY not configured")
               ELSE IF client.secret_key = PLACEHOLDER_SECRET_KEY
               THEN Reject(q, "SPEECHSUPER_SECRET_KEY not configured")
               ELSE [q EXCEPT !.pc = "done", !.url = test_url,
                              !.trace = Log(q, "sign"),
                              !.response =
                                  HttpResponse(HTTP_OK,
                                      [success |-> TRUE,
                                       timestamp |-> s.timestamp,
                                       connect_str |-> s.connect_str,
                                       signature |-> s.signature,
                                       test_url |-> test_url])]]
    /\ remaining' = remaining - 1
    /\ nextId' = nextId + 1
    /\ UNCHANGED <<client, workers, clock, fs, posts>>

\* test_speechsuper_formats, from its entry to the first test URL: the keys
\* are read from the configuration without a placeholder test and signed
\* inline
test_speechsuper_formats(r) ==
    /\ r \in workers
    /\ req[r].pc \in {"idle", "done"}
    /\ \A w \in workers : w < r => req[w].pc \notin {"idle", "done"}
    /\ remaining > 0
    /\ LET q == [IdleReq EXCEPT !.id = nextId,
                                !.route = "test_speechsuper_formats",
                                !.trace = <<"receive">>]
           s == TestFormatsSigning(client.app_key, client.secret_key, clock)
           test_url_1 == [base |-> "https://api.speechsuper.com/",
                          sig |-> s.signature, connect |-> s.connect_str,
                          coreType |-> "sent.eval", text |-> "hello",
                          quoted |-> FALSE, timestamp |-> s.timestamp]
       IN  req' = [req EXCEPT ![r] =
               [q EXCEPT !.pc = "formats", !.url = test_url_1,
                         !.trace = Log(q, "sign")]]
    /\ remaining' = remaining - 1
    /\ nextId' = nextId + 1
    /\ UNCHANGED <<client, workers, clock, fs, posts>>

\* check_audio, first statement of its inner try: os.path.getsize(temp_path),
\* then _standardize_audio is entered
check_audio_getsize(r) ==
    /\ req[r].pc = "call"
    /\ req[r].route \in CheckRoutes
    /\ LET q == req[r]
       IN  req' = [req EXCEPT ![r] =
               IF Exists(fs, q.temp_path)
               THEN [q EXCEPT !.pc = "probe", !.trace = Log(q, "getsize")]
               ELSE [q EXCEPT !.pc = "route_exists",
                              !.exc = Plain("FileNotFoundError"),
                              !.trace = Log(q, "raise")]]
    /\ UNCHANGED <<client, workers, remaining, nextId, clock, fs, posts>>

\* outcomes of subprocess.run(['ffmpeg', '-version'], check=True): it
\* returns, it raises, or the child never exits ("NoAnswer"); the call is
\* given no timeout, so in the last case it does not return
ProbeOutcomes ==
    {"ok", "FileNotFoundError", "CalledProcessError", "PermissionError", "NoAnswer"}

\* the probe catching FileNotFoundError only: a non-zero exit of
\* 'ffmpeg -version' propagates
CheckFfmpegCatchingMissingOnly(r) ==
    /\ req[r].pc = "probe"
    /\ \E outcome \in Choose(nextId + remaining - 1, ProbeOutcomes, ConcProbeOutcomes) :
        LET q == [req[r] EXCEPT !.probe = outcome]
        IN  req' = [req EXCEPT ![r] =
                IF outcome = "ok"
                THEN [q EXCEPT !.pc = "transcode", !.trace = Log(q, "probe")]
                ELSE IF outcome = "FileNotFoundError"
                THEN [q EXCEPT !.pc = "read",
                               !.standardized_path = q.temp_path,
                               !.trace = Log(q, "normalize_skipped")]
                ELSE IF outcome = "NoAnswer"
                THEN [q EXCEPT !.pc = "blocked", !.trace = Log(q, "probe")]
                ELSE [q EXCEPT !.pc = "route_exists",
                               !.exc = Plain(outcome),
                               !.trace = Log(q, "raise")]]
    /\ UNCHANGED <<client, workers, remaining, nextId, clock, fs, posts>>

\* _check_ffmpeg_availability, as called first thing by _standardize_audio,
\* itself called by _send_audio_request before its try block
_check_ffmpeg_availability(r) ==
    /\ req[r].pc = "probe"
    /\ \E outcome \in Choose(nextId + remaining - 1, ProbeOutcomes, ConcProbeOutcomes) :
        LET q == [req[r] EXCEPT !.probe = outcome]
        IN  req' = [req EXCEPT ![r] =
                IF outcome = "ok"
                THEN [q EXCEPT !.pc = "transcode", !.trace = Log(q, "probe")]
                ELSE IF outcome \in {"FileNotFoundError", "CalledProcessError"}
                THEN [q EXCEPT !.pc = "read",
                               !.standardized_path = q.temp_path,
                               !.trace = Log(q, "normalize_skipped")]
                ELSE IF outcome = "NoAnswer"
                THEN [q EXCEPT !.pc = "blocked", !.trace = Log(q, "probe")]
                ELSE [q EXCEPT !.pc = "route_exists",
                               !.exc = Plain(outcome),
                               !.trace = Log(q, "raise")]]
    /\ UNCHANGED <<client, workers, remaining, nextId, clock, fs, posts>>

\* outcomes of subprocess.run(cmd, timeout=60) and the code after it, each
\* with or without a file left at the output path, and the size of that file
FfmpegRun(outcome, leaves, n) == [outcome |-> outcome, leaves |-> leaves, len |-> n]
FfmpegRuns ==
    { FfmpegRun("ok", TRUE, n) : n \in OutLens }
        \cup { FfmpegRun(o, l, 1) : o \in {"nonzero", "TimeoutExpired"}, l \in BOOLEAN }
        \cup { FfmpegRun("Exception", FALSE, 0) }
ConcFfmpegRuns ==
    { FfmpegRun("ok", TRUE, SmallLen + 1), FfmpegRun("TimeoutExpired", TRUE, 1),
      FfmpegRun("nonzero", FALSE, 1) }

\* the transcoding step without its test of the exit code: the output path
\* is returned whenever ffmpeg ran to its end
StandardizeIgnoringExitCode(r) ==
    /\ req[r].pc = "transcode"
    /\ LET q == req[r]
           input_path == q.temp_path
           input == fs[input_path]
           standardized_path == StandardizedPath(input_path)
       IN  \E run \in Choose(nextId + remaining - 1, FfmpegRuns, ConcFfmpegRuns) :
            /\ run.outcome = "ok" => input # NoFile /\ input.len > 0
            /\ (run.outcome = "TimeoutExpired" \/ run.leaves)
                   => input # NoFile /\ input.len > 0
            /\ fs' = IF run.leaves
                     THEN [fs EXCEPT ![standardized_path] =
                              [origin |-> input.origin,
                               form |-> IF run.outcome = "ok" THEN "wav"
                                        ELSE "partial",
                               len |-> run.len]]
                     ELSE fs
            /\ req' = [req EXCEPT ![r] =
                   [q EXCEPT !.pc = "read",
                             !.ffmpeg = run.outcome,
                             !.made = IF run.outcome = "ok" THEN "full"
                                      ELSE IF run.leaves THEN "partial" ELSE "none",
                             !.standardized_path =
                                 IF run.outcome \in {"ok", "nonzero"}
                                 THEN standardized_path
                                 ELSE input_path,
                             !.trace = Log(q, IF run.outcome = "ok" THEN "normalized"
                                              ELSE "normalize_failed")]]
    /\ UNCHANGED <<client, workers, remaining, nextId, clock, posts>>

\* _standardize_audio after the probe: run ffmpeg, return the new path on
\* exit code 0 and the input path otherwise.  A failed or killed ffmpeg may
\* leave what it had written at the output path.  After exit code 0 the two
\* os.path.getsize calls read the input and the output, both present then.
_standardize_audio(r) ==
    /\ req[r].pc = "transcode"
    /\ LET q == req[r]
           input_path == q.temp_path
           input == fs[input_path]
           standardized_path == StandardizedPath(input_path)
       IN  \E run \in Choose(nextId + remaining - 1, FfmpegRuns, ConcFfmpegRuns) :
            \* ffmpeg opens the input before the output: when the input is
            \* missing or empty it exits non-zero at once and writes nothing
            /\ run.outcome = "ok" => input # NoFile /\ input.len > 0
            /\ (run.outcome = "TimeoutExpired" \/ run.leaves)
                   => input # NoFile /\ input.len > 0
            /\ fs' = IF run.leaves
                     THEN [fs EXCEPT ![standardized_path] =
                              [origin |-> input.origin,
                               form |-> IF run.outcome = "ok" THEN "wav"
                                        ELSE "partial",
                               len |-> run.len]]
                     ELSE fs
            /\ req' = [req EXCEPT ![r] =
                   [q EXCEPT !.pc = "read",
                             !.ffmpeg = run.outcome,
                             !.made = IF run.outcome = "ok" THEN "full"
                                      ELSE IF run.leaves THEN "partial" ELSE "none",
                             !.standardized_path =
                                 IF run.outcome = "ok" THEN standardized_path
                                 ELSE input_path,
                             !.trace = Log(q, IF run.outcome = "ok" THEN "normalized"
                                              ELSE "normalize_failed")]]
    /\ UNCHANGED <<client, workers, remaining, nextId, clock, posts>>

\* the read step with the size limit tested by >= instead of >
ReadAudioRejectingAtLimit(r) ==
    /\ req[r].pc = "read"
    /\ req[r].route \notin CheckRoutes
    /\ LET q == req[r]
           mvp == q.route \in MvpRoutes
           data == fs[q.standardized_path]
           fail(text) == [q EXCEPT !.pc = IF mvp THEN "route_exists"
                                          ELSE "send_finally",
                                   !.audio_data = data,
                                   !.exc = Plain(text),
                                   !.trace = Log(q, "raise")]
       IN  req' = [req EXCEPT ![r] =
               IF data = NoFile THEN fail("FileNotFoundError")
               ELSE IF ~mvp /\ data.len = 0
               THEN fail("Audio file is empty after processing")
               ELSE IF ~mvp /\ data.len >= MAX_AUDIO_BYTES
               THEN fail("Audio file too large")
               ELSE [q EXCEPT !.pc = "post", !.audio_data = data,
                              !.trace = Log(q, "read")]]
    /\ UNCHANGED <<client, workers, remaining, nextId, clock, fs, posts>>

\* open(path, 'rb').read(), and in app.py the validation of the length
ReadAudio(r) ==
    /\ req[r].pc = "read"
    /\ req[r].route \notin CheckRoutes
    /\ LET q == req[r]
           mvp == q.route \in MvpRoutes
           data == fs[q.standardized_path]
           fail(text) == [q EXCEPT !.pc = IF mvp THEN "route_exists"
                                          ELSE "send_finally",
                                   !.audio_data = data,
                                   !.exc = Plain(text),
                                   !.trace = Log(q, "raise")]
       IN  req' = [req EXCEPT ![r] =
               IF data = NoFile THEN fail("FileNotFoundError")
               ELSE IF ~mvp /\ data.len = 0
               THEN fail("Audio file is empty after processing")
               ELSE IF ~mvp /\ data.len > MAX_AUDIO_BYTES
               THEN fail("Audio file too large")
               ELSE [q EXCEPT !.pc = "post", !.audio_data = data,
                              !.trace = Log(q, "read")]]
    /\ UNCHANGED <<client, workers, remaining, nextId, clock, fs, posts>>

\* the dispatch step with one retry after a transport error
PostAudioRetrying(r) ==
    /\ req[r].pc = "post"
    /\ LET q == req[r]
           mvp == q.route \in MvpRoutes
           next_pc == IF mvp THEN "route_exists" ELSE "send_finally"
           sent == [q EXCEPT !.pc = next_pc, !.nposts = q.nposts + 1,
                             !.trace = Log(q, "post")]
       IN  /\ posts' = posts \cup {[id |-> q.id, n |-> q.nposts + 1, url |-> q.url,
                                    data |-> q.audio_data]}
           /\ \E o \in Choose(nextId + remaining - 1, PostOutcomes, ConcPostOutcomes) :
                LET c == IF mvp THEN MvpClassifyResponse(o.resp, o.wrapped)
                         ELSE ClassifyResponse(o.resp)
                IN  /\ ~o.wrapped => /\ mvp
                                     /\ o.transport = ""
                                     /\ o.resp.status < HTTP_BAD_REQUEST
                                     /\ ~ParsesAsJson(o.resp.body)
                    /\ req' = [req EXCEPT ![r] =
                           IF o.transport # "" /\ q.nposts = 0
                           THEN [sent EXCEPT !.pc = "post"]
                           ELSE IF o.transport # ""
                           THEN [sent EXCEPT !.transport = o.transport,
                                             !.exc = IF mvp
                                                     THEN MvpTransportMessage(o.transport)
                                                     ELSE TransportMessage(o.transport)]
                           ELSE [sent EXCEPT !.upstream = o.resp,
                                             !.result = c.value,
                                             !.returned = c.ok,
                                             !.exc = c.error]]
    /\ UNCHANGED <<client, workers, remaining, nextId, clock, fs>>

\* check_audio after _standardize_audio has returned: the result dictionary
\* (it probes ffmpeg a second time), and for a new standardized file its size,
\* the relative size change and os.remove(standardized_path)
check_audio_report(r) ==
    /\ req[r].pc = "read"
    /\ req[r].route \in CheckRoutes
    /\ LET q == req[r]
           original_size == q.part.len
           raise(text) == [q EXCEPT !.pc = "route_exists", !.exc = Plain(text),
                                   !.trace = Log(q, "raise")]
       IN  \E outcome \in Choose(nextId + remaining - 1, ProbeOutcomes, ConcProbeOutcomes) :
            IF outcome = "NoAnswer"
            THEN /\ fs' = fs
                 /\ req' = [req EXCEPT ![r] = [q EXCEPT !.pc = "blocked"]]
            ELSE IF outcome = "PermissionError"
            THEN /\ fs' = fs
                 /\ req' = [req EXCEPT ![r] = raise(outcome)]
            ELSE IF q.standardized_path = q.temp_path
            THEN /\ fs' = fs
                 /\ req' = [req EXCEPT ![r] =
                        [q EXCEPT !.pc = "route_exists", !.trace = Log(q, "report")]]
            ELSE IF ~Exists(fs, q.standardized_path)
            THEN /\ fs' = fs
                 /\ req' = [req EXCEPT ![r] = raise("FileNotFoundError")]
            ELSE IF original_size = 0
            THEN /\ fs' = fs
                 /\ req' = [req EXCEPT ![r] = raise("division by zero")]
            ELSE /\ fs' = [fs EXCEPT ![q.standardized_path] = NoFile]
                 /\ req' = [req EXCEPT ![r] =
                        [q EXCEPT !.pc = "route_exists", !.trace = Log(q, "cleanup")]]
    /\ UNCHANGED <<client, workers, remaining, nextId, clock, posts>>

\* requests.post(url, data=audio_data, ...) and the handling of its outcome
PostAudio(r) ==
    /\ req[r].pc = "post"
    /\ LET q == req[r]
           mvp == q.route \in MvpRoutes
           next_pc == IF mvp THEN "route_exists" ELSE "send_finally"
           sent == [q EXCEPT !.pc = next_pc, !.nposts = q.nposts + 1,
                             !.trace = Log(q, "post")]
       IN  /\ posts' = posts \cup {[id |-> q.id, n |-> q.nposts + 1, url |-> q.url,
                                    data |-> q.audio_data]}
           /\ \E o \in Choose(nextId + remaining - 1, PostOutcomes, ConcPostOutcomes) :
                LET c == IF mvp THEN MvpClassifyResponse(o.resp, o.wrapped)
                         ELSE ClassifyResponse(o.resp)
                IN  \* the wrapping only shows in the MVP's JSON error
                    /\ ~o.wrapped => /\ mvp
                                     /\ o.transport = ""
                                     /\ o.resp.status < HTTP_BAD_REQUEST
                                     /\ ~ParsesAsJson(o.resp.body)
                    /\ req' = [req EXCEPT ![r] =
                           IF o.transport # ""
                           THEN [sent EXCEPT !.transport = o.transport,
                                             !.exc = IF mvp
                                                     THEN MvpTransportMessage(o.transport)
                                                     ELSE TransportMessage(o.transport)]
                           ELSE [sent EXCEPT !.upstream = o.resp,
                                             !.result = c.value,
                                             !.returned = c.ok,
                                             !.exc = c.error]]
    /\ UNCHANGED <<client, workers, remaining, nextId, clock, fs>>

\* the removal of the standardized file placed after the call instead of in
\* a finally block: it is skipped when the call raised
SendCleanupAfterCallOnly(r) ==
    /\ req[r].pc = "send_finally"
    /\ LET q == req[r]
           cleanup == /\ q.standardized_path # q.temp_path
                      /\ Exists(fs, q.standardized_path)
                      /\ q.exc = NoExc
       IN  /\ fs' = IF cleanup THEN [fs EXCEPT ![q.standardized_path] = NoFile]
                    ELSE fs
           /\ req' = [req EXCEPT ![r] =
                  [q EXCEPT !.pc = "route_exists",
                            !.trace = IF cleanup THEN Log(q, "cleanup")
                                      ELSE q.trace]]
    /\ UNCHANGED <<client, workers, remaining, nextId, clock, posts>>

\* the finally block of _send_audio_request without its comparison of the
\* two paths
SendFinallyRemovingAnyPath(r) ==
    /\ req[r].pc = "send_finally"
    /\ LET q == req[r]
           cleanup == Exists(fs, q.standardized_path)
       IN  /\ fs' = IF cleanup THEN [fs EXCEPT ![q.standardized_path] = NoFile]
                    ELSE fs
           /\ req' = [req EXCEPT ![r] =
                  [q EXCEPT !.pc = "route_exists",
                            !.trace = IF cleanup THEN Log(q, "cleanup")
                                      ELSE q.trace]]
    /\ UNCHANGED <<client, workers, remaining, nextId, clock, posts>>

\* the finally block of _send_audio_request
SendFinally(r) ==
    /\ req[r].pc = "send_finally"
    /\ LET q == req[r]
           cleanup == /\ q.standardized_path # q.temp_path
                      /\ Exists(fs, q.standardized_path)
       IN  /\ fs' = IF cleanup THEN [fs EXCEPT ![q.standardized_path] = NoFile]
                    ELSE fs
           /\ req' = [req EXCEPT ![r] =
                  [q EXCEPT !.pc = "route_exists",
                            !.trace = IF cleanup THEN Log(q, "cleanup")
                                      ELSE q.trace]]
    /\ UNCHANGED <<client, workers, remaining, nextId, clock, posts>>

(***************************************************************************)
(* The route's finally block and its "except Exception".                   *)
(***************************************************************************)
\* if os.path.exists(temp_path):
RouteExists(r) ==
    /\ req[r].pc = "route_exists"
    /\ LET q == req[r]
       IN  req' = [req EXCEPT ![r] =
               IF Exists(fs, q.temp_path) THEN [q EXCEPT !.pc = "route_remove"]
               ELSE Finish(q, q.exc)]
    /\ UNCHANGED <<client, workers, remaining, nextId, clock, fs, posts>>

\* the removal placed after the call instead of in a finally block: it is
\* skipped when the call raised
RouteRemoveAfterCallOnly(r) ==
    /\ req[r].pc = "route_remove"
    /\ LET q == req[r]
       IN  IF Exists(fs, q.temp_path) /\ q.exc = NoExc
           THEN /\ fs' = [fs EXCEPT ![q.temp_path] = NoFile]
                /\ req' = [req EXCEPT ![r] =
                       Finish([q EXCEPT !.trace = Log(q, "remove_upload")], q.exc)]
           ELSE /\ fs' = fs
                /\ req' = [req EXCEPT ![r] = Finish(q, q.exc)]
    /\ UNCHANGED <<client, workers, remaining, nextId, clock, posts>>

\* os.remove(temp_path); an error raised here replaces the pending outcome
RouteRemove(r) ==
    /\ req[r].pc = "route_remove"
    /\ LET q == req[r]
       IN  IF Exists(fs, q.temp_path)
           THEN /\ fs' = [fs EXCEPT ![q.temp_path] = NoFile]
                /\ req' = [req EXCEPT ![r] =
                       Finish([q EXCEPT !.trace = Log(q, "remove_upload")], q.exc)]
           ELSE /\ fs' = fs
                /\ req' = [req EXCEPT ![r] =
                       Finish([q EXCEPT !.trace = Log(q, "raise")],
                              Plain("FileNotFoundError"))]
    /\ UNCHANGED <<client, workers, remaining, nextId, clock, posts>>

Next ==
    \/ Tick
    \/ \E r \in ReqIds :
        \/ Receive(r)
        \/ Save(r)
        \/ _make_assessment_request(r)
        \/ _make_speechsuper_request(r)
        \/ MvpSign(r)
        \/ check_audio_getsize(r)
        \/ _check_ffmpeg_availability(r)
        \/ _standardize_audio(r)
        \/ ReadAudio(r)
        \/ check_audio_report(r)
        \/ PostAudio(r)
        \/ SendFinally(r)
        \/ RouteExists(r)
        \/ RouteRemove(r)

\* one request at a time, inputs from the full sets
Spec == Init /\ [][Next]_vars

\* two requests in flight, inputs from the representative subsets
SpecConc == InitConc /\ [][Next]_vars

\* several requests one after the other, inputs from the representative subsets
SpecSeq == InitSeq /\ [][Next]_vars

\* the steps that sign, one per copy of the signing computation
NextSign ==
    \/ Tick
    \/ \E r \in ReqIds :
        \/ Receive(r)
        \/ Save(r)
        \/ _make_assessment_request(r)
        \/ MvpSign(r)
        \/ debug_auth(r)
        \/ test_speechsuper_formats(r)

\* one request, any configuration of keys, up to the signed URL
SpecSign == Init /\ [][NextSign]_vars

(***************************************************************************)
(* Properties.                                                             *)
(***************************************************************************)
\* the client call of the route has returned or raised
AfterCall == {"route_exists", "route_remove", "done"}

\* C1: after _send_audio_request returns or raises, no file that its
\* transcoding step created or partially wrote is left at the normalized
\* output path '<stem>_standardized.wav'.
C1_NoStandardizedFileRemains ==
    \A r \in workers :
        LET q == req[r]
        IN  (q.route \in ScriptedRoutes /\ q.probe # "" /\ q.pc \in AfterCall)
                => LET f == fs[StandardizedPath(q.temp_path)]
                   IN  ~(q.made # "none" /\ f.origin = q.id
                             /\ f.form \in {"wav", "partial"})

\* C2: whatever the outcome of normalization (tool missing, probe raising,
\* ffmpeg failing, timing out or raising), _send_audio_request goes on to
\* read an audio file and, the audio being non-empty and within the size
\* limit, issues the outbound call.
C2_NormalizationNeverAborts ==
    \A r \in workers :
        LET q == req[r]
        IN  (q.route \in ScriptedRoutes /\ q.probe # "" /\ q.pc \in AfterCall)
                => /\ q.audio_data # NoFile
                   /\ (q.audio_data.len > 0 /\ q.audio_data.len <= MAX_AUDIO_BYTES)
                          => q.nposts = 1

\* C3: the audio bytes posted upstream on behalf of a request are the bytes
\* that same request uploaded, or their transcoded copy, never bytes of
\* another request, under any interleaving of two requests.
C3_PostedBytesAreOwn ==
    \A p \in posts : p.data.origin = p.id

\* C4: the cleanup steps of one request never remove a file that another
\* in-flight request saved and has not finished using, and no request fails
\* because of another request's cleanup.
C4_NoCrossRequestCleanup ==
    \A r \in workers :
        LET q == req[r]
        IN  /\ q.pc \in {"call", "probe", "transcode"} => Exists(fs, q.temp_path)
            /\ q.exc # Plain("FileNotFoundError")

\* C5: when the app key or the secret key is still its placeholder, every
\* assessment request fails with a configuration error and no outbound POST
\* is issued.
C5_PlaceholderKeysBlockCall ==
    (client.app_key = PLACEHOLDER_APP_KEY
        \/ client.secret_key = PLACEHOLDER_SECRET_KEY)
        => /\ posts = {}
           /\ \A r \in workers :
                  (req[r].pc = "done" /\ req[r].route \notin CheckRoutes)
                      => "error" \in DOMAIN req[r].response.json

\* C6: within one request normalization finishes (or is skipped) first, then
\* the timestamp is read and the signature computed, then the request is
\* sent: the timestamp is never read before normalization has finished.
C6_NormalizeThenSignThenPost ==
    \A r \in workers :
        LET t == req[r].trace
            Normalization == {"normalized", "normalize_failed", "normalize_skipped"}
        IN  \A i, j \in 1..Len(t) :
                /\ (t[i] = "sign" /\ t[j] \in Normalization) => j < i
                /\ (t[i] = "sign" /\ t[j] = "post") => i < j

\* C7: for every assessment operation (sentence, paragraph, PTE, IELTS,
\* transcribe-and-score) a request that passes input validation and carries a
\* non-empty audio file within the size limit results in one outbound call.
C7_EveryOperationPosts ==
    \A r \in workers :
        LET q == req[r]
        IN  (q.route \in ScriptedRoutes \cup UnscriptedRoutes
                /\ q.pc \in AfterCall /\ q.temp_path # NoPath
                /\ q.part.len > 0 /\ q.part.len <= MAX_AUDIO_BYTES
                /\ q.made # "full")
                => q.nposts = 1

\* C8: every error returned by an assessment endpoint has the uniform shape:
\* a success field equal to false and an error message field.
C8_UniformErrorShape ==
    \A r \in workers :
        LET resp == req[r].response
        IN  (req[r].pc = "done" /\ resp.code >= HTTP_BAD_REQUEST)
                => /\ "error" \in DOMAIN resp.json
                   /\ "success" \in DOMAIN resp.json
                   /\ resp.json.success = FALSE

\* C9: for every upstream content error (non-200 status, empty body,
\* HTML-looking body, JSON-parse failure) the error raised by the dispatch
\* step carries the upstream status code and the first portion of the body.
C9_ContentErrorCarriesStatusAndBody ==
    \A r \in workers :
        LET q == req[r]
            up == q.upstream
        IN  (q.pc \in AfterCall /\ up # NoUpstream /\ ~q.returned)
                => /\ up.status \in q.exc.codes
                   /\ up.body.len > 0 =>
                          \E e \in q.exc.excerpts :
                              e.kind = up.body.kind /\ e.len > 0

\* C10: when the upstream returns HTTP 500 with a short non-empty plain-text
\* body, the error message delivered to the caller contains the status code
\* 500 and an excerpt of that body.
C10_Status500InMessage ==
    \A r \in workers :
        LET q == req[r]
            up == q.upstream
        IN  (q.pc = "done" /\ up.status = HTTP_SERVER_ERROR
                /\ up.body = [kind |-> "text", len |-> ShortLen])
                => /\ "error" \in DOMAIN q.response.json
                   /\ HTTP_SERVER_ERROR \in q.response.json.error.codes
                   /\ \E e \in q.response.json.error.excerpts :
                          e.kind = "text" /\ e.len > 0

\* C11: when the upstream answers HTTP 200 with a non-empty body that is not
\* valid JSON, the endpoint answers with an error result whose message says
\* that the content was not JSON (it names JSON, or the HTML it got instead),
\* and no exception escapes the route handler.
C11_NonJsonBodyReported ==
    \A r \in workers :
        LET q == req[r]
            up == q.upstream
            Mentions(text, word) ==
                \E i \in 1..(Len(text) - Len(word) + 1) :
                    SubSeq(text, i, i + Len(word) - 1) = word
        IN  (q.pc = "done" /\ up.status = HTTP_OK /\ up.body.len > 0
                /\ ~ParsesAsJson(up.body))
                => /\ q.response.code = HTTP_SERVER_ERROR
                   /\ "error" \in DOMAIN q.response.json
                   /\ \/ Mentions(q.response.json.error.text, "JSON")
                      \/ Mentions(q.response.json.error.text, "HTML")

\* C12: _send_audio_request returns a result, instead of raising, exactly
\* when the upstream response has status 200, a non-empty body that does not
\* look like HTML, a content type that is not HTML, and a body that parses as
\* JSON; the value returned is the parsed JSON unchanged, and every other
\* response is reported as an error.
C12_ReturnsExactlyOnValidJson ==
    \A r \in workers :
        LET q == req[r]
            up == q.upstream
            valid == /\ up.status = HTTP_OK
                     /\ up.body.len > 0
                     /\ ~HtmlLooking(up.body)
                     /\ ~HtmlType(up.ctype)
                     /\ ParsesAsJson(up.body)
        IN  (q.route \in ScriptedRoutes /\ up # NoUpstream)
                => /\ q.returned <=> valid
                   /\ q.returned => q.result = up.body /\ q.exc = NoExc
                   /\ ~q.returned => q.result = EmptyBody /\ q.exc # NoExc

\* a 200 JSON answer has been returned by _send_audio_request and relayed
C12_Witness ==
    \E r \in workers :
        LET q == req[r]
        IN  /\ q.route \in ScriptedRoutes
            /\ q.pc = "done"
            /\ q.returned
            /\ q.upstream.status = HTTP_OK
            /\ q.result = [kind |-> "json", len |-> ShortLen]
            /\ q.response = HttpResponse(HTTP_OK, SuccessJson(q.result, q.text))

\* C13: at most one outbound POST is issued for an inbound assessment
\* request; after a failed call (timeout, connection error, non-200 status,
\* bad body) no further POST is issued for that request and the failure is
\* what the caller gets back.
C13_AtMostOnePostNoRetry ==
    /\ \A p1, p2 \in posts : p1.id = p2.id => p1.n = p2.n
    /\ \A r \in workers :
           LET q == req[r]
               failed == q.nposts > 0 /\ ~q.returned
           IN  /\ q.nposts <= 1
               /\ Cardinality({ p \in posts : p.id = q.id }) = q.nposts
               /\ failed => q.pc # "post" /\ q.exc # NoExc
               /\ (failed /\ q.pc = "done")
                      => q.response = HttpResponse(HTTP_SERVER_ERROR, ErrorJson(q.exc))

\* a request whose only POST timed out has been answered with that failure
C13_Witness ==
    \E r \in workers :
        LET q == req[r]
        IN  /\ q.pc = "done"
            /\ q.nposts = 1
            /\ q.transport = "Timeout"
            /\ q.response.code = HTTP_SERVER_ERROR
            /\ q.response.json = ErrorJson(TransportMessage("Timeout"))

\* C14: once an assessment route handler that saved an upload has returned,
\* the saved upload no longer exists, whichever way the handler ended:
\* upstream success, upstream error, transcoding failure or timeout, or an
\* exception raised by the client call.
C14_UploadRemovedOnEveryExit ==
    \A r \in workers :
        LET q == req[r]
        IN  (q.pc = "done" /\ q.temp_path # NoPath)
                => /\ ~Exists(fs, q.temp_path)
                   /\ \A p \in Paths : fs[p].form = "raw" => fs[p].origin # q.id

\* a handler whose ffmpeg run timed out and whose call then failed has
\* returned after removing its upload
C14_Witness ==
    \E r \in workers :
        LET q == req[r]
        IN  /\ q.pc = "done"
            /\ q.ffmpeg = "TimeoutExpired"
            /\ q.exc # NoExc
            /\ q.trace[Len(q.trace)] = "remove_upload"
            /\ ~Exists(fs, q.temp_path)

\* outcomes of the probe for which _check_ffmpeg_availability returns False
ToolUnavailable == {"FileNotFoundError", "CalledProcessError"}

\* C15: when the transcoding tool is reported unavailable, _standardize_audio
\* returns exactly the input path it was given, does not run the transcoding
\* command, creates no file and raises no error.
C15_UnavailableToolFallsBack ==
    /\ [][\A r \in workers :
             (req[r].pc = "probe" /\ req'[r].probe \in ToolUnavailable)
                 => /\ req'[r].standardized_path = req[r].temp_path
                    /\ req'[r].pc = "read"
                    /\ req'[r].exc = NoExc
                    /\ fs' = fs]_vars
    /\ [](\A r \in workers :
             req[r].probe \in ToolUnavailable
                 => /\ req[r].ffmpeg = ""
                    /\ req[r].made = "none"
                    /\ req[r].standardized_path = req[r].temp_path
                    /\ ~Exists(fs, StandardizedPath(req[r].temp_path)))

\* the probe has exited non-zero and the request goes on with its upload
C15_Witness ==
    \E r \in workers :
        LET q == req[r]
        IN  /\ q.probe = "CalledProcessError"
            /\ q.pc = "read"
            /\ q.standardized_path = q.temp_path
            /\ Exists(fs, q.temp_path)
            /\ q.exc = NoExc

C17_NoRequestBlocksForever ==
    \A r \in workers :
        req[r].pc \notin {"idle", "done"}
            => ENABLED (\/ Save(r)
                        \/ _make_assessment_request(r)
                        \/ _make_speechsuper_request(r)
                        \/ MvpSign(r)
                        \/ check_audio_getsize(r)
                        \/ _check_ffmpeg_availability(r)
                        \/ _standardize_audio(r)
                        \/ ReadAudio(r)
                        \/ check_audio_report(r)
                        \/ PostAudio(r)
                        \/ SendFinally(r)
                        \/ RouteExists(r)
                        \/ RouteRemove(r))

\* C18: Variant A signing.  In every outbound call the connect token is
\* appKey + timestamp, the signed string is appKey + timestamp + connect token
\* (the token's text twice in a row), the signature is the base64 encoding of
\* the lowercase-hex HMAC-SHA1 digest of that string keyed by the secret key,
\* and the connect value in the URL is the token that was signed.
C18_VariantASigning ==
    \A p \in posts :
        \E t \in EpochStart..(EpochStart + MaxTicks) :
            LET connectToken == client.app_key \o Str(t)
            IN  /\ p.url.connect = connectToken
                /\ p.url.sig.b64.alg = "hmac-sha1-hex"
                /\ p.url.sig.b64.key = client.secret_key
                /\ p.url.sig.b64.msg = connectToken \o connectToken
                /\ p.url.sig.b64.msg = client.app_key \o Str(t) \o p.url.connect

\* a paragraph assessment has issued its call, signed within the current second
C18_Witness ==
    \E r \in workers :
        LET q == req[r]
        IN  /\ q.nposts = 1
            /\ q.route = "assess_paragraph"
            /\ client.app_key = "k1"
            /\ client.secret_key = "s3cr3t"
            /\ \E p \in posts :
                   /\ p.id = q.id
                   /\ p.url = q.url
                   /\ p.url.connect = "k1" \o Str(clock)
                   /\ p.url.sig = Base64(HmacSha1Hex("s3cr3t", p.url.connect \o p.url.connect))

\* C19: the signature is a deterministic function of (appKey, secretKey,
\* timestamp): two requests made with the same keys whose timestamps fall in
\* the same second carry identical connect tokens and identical signatures,
\* whatever other requests ran in between.
C19_SameSecondSameSignature ==
    \A p1, p2 \in posts :
        p1.url.timestamp = p2.url.timestamp
            => /\ p1.url.connect = p2.url.connect
               /\ p1.url.sig = p2.url.sig

\* the first and the third request of a run were signed in the same second,
\* a second request having been handled between them
C19_Witness ==
    \E p1, p2 \in posts :
        /\ p1.id = 1
        /\ p2.id = 3
        /\ p1.url.timestamp = p2.url.timestamp
        /\ p1.url.coreType = p2.url.coreType
        /\ p1.url.sig = p2.url.sig
        /\ req[1].id = 3

\* C20: the signature sent in a request's outbound URL was computed from the
\* timestamp read during that same request, and that timestamp is the one
\* embedded in the URL's connect value; no timestamp or signature computed
\* for an earlier request is reused by a later one.
C20_SignatureFromOwnTimestamp ==
    /\ [][\A r \in workers :
             (req[r].url = NoUrl /\ req'[r].url # NoUrl)
                 => LET url == req'[r].url
                        now == Str(clock)
                    IN  /\ req'[r].id = req[r].id
                        /\ url.timestamp = now
                        /\ url.connect = client.app_key \o now
                        /\ url.sig = Base64(HmacSha1Hex(client.secret_key,
                                                        client.app_key \o now \o url.connect))]_vars
    /\ [][\A r \in workers :
             (req[r].url # NoUrl /\ req'[r].id = req[r].id)
                 => req'[r].url = req[r].url]_vars
    /\ [][\A p \in posts' \ posts :
             \E r \in workers : p.id = req[r].id /\ p.url = req[r].url]_vars

\* a later request has sent a signature made from a later timestamp than the
\* request before it
C20_Witness ==
    \E p1, p2 \in posts :
        /\ p1.id < p2.id
        /\ p1.url.timestamp = Str(EpochStart)
        /\ p2.url.timestamp = Str(EpochStart + 1)
        /\ p2.url.connect = client.app_key \o Str(EpochStart + 1)
        /\ p1.url.sig # p2.url.sig

\* C21: signing is selectable per call between Variant A (HMAC-SHA1 connect
\* style) and Variant B (plain SHA-1 digest of appKey + timestamp + secretKey
\* for connect): wherever a call is about to be signed, signing it with
\* either variant is a step the client can take.
C21_BothVariantsSelectable ==
    \A r \in workers :
        (req[r].pc = "call" /\ req[r].route \in ScriptedRoutes \cup MvpRoutes)
            => /\ ENABLED (/\ _make_assessment_request(r) \/ MvpSign(r)
                           /\ req'[r].url.sig =
                                  Base64(HmacSha1Hex(client.secret_key,
                                      client.app_key \o Str(clock)
                                          \o client.app_key \o Str(clock))))
               /\ ENABLED (/\ _make_assessment_request(r) \/ MvpSign(r)
                           /\ req'[r].url.sig =
                                  VariantBConnect(client.app_key, Str(clock),
                                                  client.secret_key))

\* C23: an upstream transport failure (request timeout, connection failure,
\* other request-level network error) reaches the caller as a descriptive
\* error, and on each of these paths the standardized file that
\* normalization produced has been removed by the time the error leaves
\* _send_audio_request.
C23_TransportFailureReported ==
    \A r \in workers :
        LET q == req[r]
            Mentions(text, word) ==
                \E i \in 1..(Len(text) - Len(word) + 1) :
                    SubSeq(text, i, i + Len(word) - 1) = word
        IN  (q.transport # "" /\ q.pc \in AfterCall)
                => /\ q.nposts = 1 /\ ~q.returned
                   /\ q.exc.text # ""
                   /\ (q.route \in ScriptedRoutes /\ q.transport = "Timeout")
                          => Mentions(q.exc.text, "timed out")
                   /\ (q.route \in ScriptedRoutes /\ q.transport = "ConnectionError")
                          => Mentions(q.exc.text, "Unable to connect")
                   /\ (q.route \in ScriptedRoutes /\ q.transport = "RequestException")
                          => Mentions(q.exc.text, "Network error")
                   /\ q.route \in MvpRoutes => Mentions(q.exc.text, "API request failed")
                   /\ q.ffmpeg = "ok" => ~Exists(fs, StandardizedPath(q.temp_path))
                   /\ q.pc = "done"
                          => q.response = HttpResponse(HTTP_SERVER_ERROR, ErrorJson(q.exc))

\* the call of a request whose audio had been transcoded could not connect,
\* and the caller has the error
C23_Witness ==
    \E r \in workers :
        LET q == req[r]
        IN  /\ q.pc = "done"
            /\ q.ffmpeg = "ok"
            /\ q.transport = "ConnectionError"
            /\ q.response.json = ErrorJson(Plain("Unable to connect to SpeechSuper API"))
            /\ ~Exists(fs, StandardizedPath(q.temp_path))
            /\ "cleanup" \in { q.trace[i] : i \in 1..Len(q.trace) }

\* C24: after check_audio has returned, on any exit path (an exception raised
\* between normalization and the explicit removal call included), neither
\* the saved upload nor the standardized file it created remains on disk.
C24_CheckAudioLeavesNothing ==
    \A r \in workers :
        LET q == req[r]
        IN  (q.route \in CheckRoutes /\ q.pc = "done" /\ q.temp_path # NoPath)
                => /\ ~Exists(fs, q.temp_path)
                   /\ q.ffmpeg = "ok" => ~Exists(fs, StandardizedPath(q.temp_path))

\* C25: a request rejected by input validation (no audio part, empty
\* filename, or missing reference text on the scripted endpoints) is answered
\* 400 with an error message, and on that path no upload is saved, no
\* normalization is run and no outbound call is issued; the audio checks are
\* evaluated before the reference-text check.
C25_ValidationRejects ==
    \A r \in workers :
        LET q == req[r]
            no_part == ~q.part.present
            no_name == q.part.present /\ q.part.name = NoName
            no_text == q.route \in NeedsReference /\ q.text = ""
            message == IF no_part THEN "No audio file provided"
                       ELSE IF no_name THEN "No audio file selected"
                       ELSE "Reference text is required"
        IN  q.pc # "idle"
                => /\ (no_part \/ no_name \/ no_text)
                       <=> (q.pc = "done" /\ q.response.code = HTTP_BAD_REQUEST)
                   /\ (no_part \/ no_name \/ no_text)
                       => /\ q.response = HttpResponse(HTTP_BAD_REQUEST,
                                                       ErrorJson(Plain(message)))
                          /\ q.temp_path = NoPath
                          /\ q.probe = "" /\ q.ffmpeg = ""
                          /\ q.nposts = 0
                          /\ q.trace = <<"receive">>
                          /\ \A p \in Paths : fs[p].origin # q.id
                          /\ \A p \in posts : p.id # q.id

\* a sentence request with neither an audio part nor a reference text has
\* been rejected for the missing audio
C25_Witness ==
    \E r \in workers :
        LET q == req[r]
        IN  /\ q.pc = "done"
            /\ q.route = "assess_sentence"
            /\ ~q.part.present
            /\ q.text = ""
            /\ q.response = HttpResponse(HTTP_BAD_REQUEST,
                                         ErrorJson(Plain("No audio file provided")))
            /\ fs = [p \in Paths |-> NoFile]

\* C26: in _send_audio_request audio of length 0 and audio longer than
\* 16*1024*1024 bytes are rejected with an error before any outbound call,
\* audio of exactly 16*1024*1024 bytes is accepted, and on the rejection
\* paths the standardized file is still removed.
C26_AudioSizeLimits ==
    \A r \in workers :
        LET q == req[r]
            n == q.audio_data.len
        IN  (q.route \in ScriptedRoutes /\ q.pc \in AfterCall /\ q.audio_data # NoFile)
                => /\ n = 0
                       => /\ q.nposts = 0
                          /\ q.exc = Plain("Audio file is empty after processing")
                   /\ n > 16 * 1024 * 1024
                       => /\ q.nposts = 0
                          /\ q.exc = Plain("Audio file too large")
                   /\ (n >= 1 /\ n <= 16 * 1024 * 1024) => q.nposts = 1
                   /\ (q.nposts = 0 /\ q.ffmpeg = "ok")
                       => ~Exists(fs, StandardizedPath(q.temp_path))

\* transcoded audio of exactly 16 MB has been posted
C26_Witness ==
    \E r \in workers :
        LET q == req[r]
        IN  /\ q.route \in ScriptedRoutes
            /\ q.pc = "done"
            /\ q.audio_data.len = 16 * 1024 * 1024
            /\ q.nposts = 1
            /\ \E p \in posts : p.id = q.id /\ p.data.len = 16 * 1024 * 1024

\* C27: response classification in _send_audio_request follows a fixed
\* precedence: an HTML-looking non-empty body is reported as the HTML error
\* whatever the status code; otherwise a non-200 status is reported with its
\* code; otherwise an empty body; otherwise an HTML content type; otherwise a
\* JSON-parse failure.  Each response yields exactly one of these errors or a
\* success.
C27_ClassificationPrecedence ==
    \A r \in workers :
        LET q == req[r]
            up == q.upstream
            html_body == up.body.len > 0 /\ up.body.kind = "html"
            bad_status == up.status # 200
            empty_body == up.body.len = 0
            html_type == up.ctype = "text/html"
            bad_json == up.body.kind # "json"
            ParseErrors == {"API returned completely empty response",
                            "API returned HTML instead of JSON",
                            "API returned non-JSON response"}
        IN  (q.route \in ScriptedRoutes /\ up # NoUpstream)
                => IF html_body
                   THEN ~q.returned
                        /\ q.exc = Plain("API returned HTML error page instead of JSON")
                   ELSE IF bad_status
                   THEN ~q.returned /\ q.exc.text = "API returned status"
                        /\ q.exc.codes = {up.status}
                   ELSE IF empty_body
                   THEN ~q.returned
                        /\ q.exc = Plain("API returned empty response (0 bytes)")
                   ELSE IF html_type
                   THEN ~q.returned /\ q.exc = Plain("API returned HTML content type")
                   ELSE IF bad_json
                   THEN ~q.returned /\ q.exc.text \in ParseErrors /\ q.exc.codes = {}
                   ELSE q.returned /\ q.exc = NoExc

\* an HTML page served with status 500 has been reported as the HTML error,
\* not as the status
C27_Witness ==
    \E r \in workers :
        LET q == req[r]
        IN  /\ q.route \in ScriptedRoutes
            /\ q.pc = "done"
            /\ q.upstream.status = HTTP_SERVER_ERROR
            /\ q.upstream.body = [kind |-> "html", len |-> ShortLen]
            /\ q.response.json = ErrorJson(Plain("API returned HTML error page instead of JSON"))

InsideSend == {"probe", "transcode", "read", "post", "send_finally"}

C29_UploadAndClientUntouched ==
    /\ [][\A r \in workers :
             LET q == req[r]
             IN  (req'[r] # q /\ q.temp_path # NoPath)
                     => /\ (q.route \in ScriptedRoutes /\ q.pc \in InsideSend)
                               => fs'[q.temp_path] = fs[q.temp_path]
                        /\ (Exists(fs, q.temp_path) /\ fs'[q.temp_path] # fs[q.temp_path])
                               => /\ q.pc = "route_remove"
                                  /\ ~Exists(fs', q.temp_path)]_vars
    /\ [][client' = client]_vars

\* the transcoding failed, _send_audio_request worked on the upload itself
\* and has returned, and the upload is still there for the route to remove
C29_Witness ==
    \E r \in workers :
        LET q == req[r]
        IN  /\ q.route \in ScriptedRoutes
            /\ q.pc = "route_remove"
            /\ q.ffmpeg = "nonzero"
            /\ q.standardized_path = q.temp_path
            /\ q.nposts = 1
            /\ fs[q.temp_path] = Upload(q.id, q.part.len)
            /\ client.app_key = "k1"

\* C30: all copies of the signing computation agree: for the same app key,
\* secret key and timestamp, the inline computations in debug_auth and
\* test_speechsuper_formats and the _generate_signature methods of both
\* source files produce the same connect token and the same signature.
C30_SigningCopiesAgree ==
    \A r \in workers :
        LET q == req[r]
            u == q.url
            now == clock
            d == DebugAuthSigning(client.app_key, client.secret_key, now)
            t == TestFormatsSigning(client.app_key, client.secret_key, now)
            a == SignedUrl(client, now, "sent.eval", "hello", FALSE)
            m == MvpSignedUrl(client, now, "sent.eval", "hello")
        IN  /\ d = t
            /\ d.connect_str = a.connect /\ d.signature = a.sig
            /\ d.connect_str = m.connect /\ d.signature = m.sig
            /\ d.timestamp = a.timestamp /\ d.timestamp = m.timestamp
            /\ d.signature = _generate_signature(client, d.timestamp, d.connect_str)
            /\ d.signature = mvp_generate_signature(client, d.timestamp, d.connect_str)
            \* what a handler has signed is what every other copy gives for
            \* the handler's keys and timestamp
            /\ u # NoUrl
                => \E at \in EpochStart..clock :
                       LET dd == DebugAuthSigning(client.app_key, client.secret_key, at)
                           tt == TestFormatsSigning(client.app_key, client.secret_key, at)
                       IN  /\ u.timestamp = Str(at)
                           /\ u.connect = dd.connect_str /\ u.sig = dd.signature
                           /\ u.connect = tt.connect_str /\ u.sig = tt.signature
                           /\ u.sig = _generate_signature(client, u.timestamp, u.connect)
                           /\ u.sig = mvp_generate_signature(client, u.timestamp, u.connect)

\* debug_auth has signed with real keys after the clock moved to two digits
C30_Witness ==
    \E r \in workers :
        LET q == req[r]
        IN  /\ q.route = "debug_auth"
            /\ q.pc = "done"
            /\ client.app_key = "k1" /\ client.secret_key = "s3cr3t"
            /\ q.url.timestamp = "10"
            /\ q.url.connect = "k110"
            /\ q.url.sig = Base64(HmacSha1Hex("s3cr3t", "k110k110"))
            /\ q.response.code = HTTP_OK

====
